---- MODULE Spec2Model ----
(***************************************************************************)
(* Model of the rndreamer chat gateway (pyserver).                         *)
(*                                                                         *)
(*   - RateLimiter            pyserver/app/utils.py                        *)
(*   - ChatService.chat       pyserver/app/services.py, app/main.py        *)
(*   - stream_response        pyserver/main.py                             *)
(*   - ChatService.chat_stream pyserver/app/services.py                    *)
(*                                                                         *)
(* Instants are integers (clock ticks); strings are sequences of           *)
(* one-character strings so that split/strip/sanitize can be computed.     *)
(***************************************************************************)
EXTENDS Integers, Sequences, FiniteSets, TLC

(***************************************************************************)
(* Bounds of the model                                                     *)
(***************************************************************************)
\* last instant of the clock
MaxTime == 3
\* largest max_requests argument passed to check_rate_limit
MaxBudget == 2
\* largest window_ms argument passed to check_rate_limit
MaxWindow == 2
\* largest number of fragments an upstream stream delivers
MaxFragments == 2
\* number of threads that call check_rate_limit at the same time
NumRacers == 3
\* settings.PROVIDER_RATE_LIMITS (200 for each provider in app/config.py),
\* scaled down
ProviderBudget == 1

\* milliseconds in a second (1000), scaled down to the clock of the model
TicksPerSecond == 2
\* largest number of streams whose start is followed
MaxTurns == 3
\* ticks for which the limiter is left unused after the last instant at
\* which it is called
MaxIdle == 1

\* settings.MAX_MESSAGE_LENGTH (24000 in app/config.py), scaled down
MAX_MESSAGE_LENGTH == 2
\* settings.MAX_MESSAGES_IN_CONTEXT (50 in app/config.py), scaled down
MAX_MESSAGES_IN_CONTEXT == 3
\* settings.MIN_MESSAGE_LENGTH
MIN_MESSAGE_LENGTH == 1
\* stop_after_attempt(3) of the retry decorator of ChatService.chat
RETRY_ATTEMPTS == 3

VARIABLES
    requests,   \* RateLimiter.requests: key -> list of instants
    now,        \* the wall clock read by datetime.now()
    lastCall,   \* the last RateLimiter call: its arguments and its result
    maxOf,      \* history: the max_requests values a key was used with ({}: not
                \* used yet, {m}: always m, SeveralMax: more than one value)
    lastAdmit,  \* history: per key, the last instant at which admit returned
                \* True (-1: never)
    racers,     \* per thread inside check_rate_limit: where it is, its
                \* arguments and the list it has filtered
    admitted,   \* history: per key, the instants recorded by the admit calls
                \* that returned True, in order
    started,    \* history: the message_id of each stream_response started
    cfg,        \* settings: ENABLED_PROVIDERS and the presence of each API key
    pc,         \* where the turn is
    req,        \* the request of the turn
    attempt,    \* the attempt of ChatService.chat the retry decorator is at
    calls,      \* history: the upstream invocations of the turn, in order
    resolves,   \* history: the results of the _get_model calls of the turn
    raised,     \* the exception the last attempt of ChatService.chat raised
    logs,       \* what log_chat_request recorded for the turn
    outcome,    \* what the caller received
    instance,   \* the model of model_instance in ChatService.chat
    result,     \* what ChatService.chat returned
    upstream,   \* the upstream generation of a streaming turn
    frames,     \* what the caller has received on the stream, in order
    stream,     \* the response stream: none, open, closed or aborted
    pending,    \* gemini: the tokens of the response still to be sent
    timer       \* the Timer of a "with Timer() as timer" block

historyVars == <<admitted, started>>
limiterVars == <<requests, now, lastCall, maxOf, lastAdmit, racers, admitted,
                 started>>
turnVars == <<cfg, pc, req, attempt, calls, resolves, raised, logs, outcome,
              instance, result, upstream, frames, stream, pending, timer>>

(***************************************************************************)
(* RateLimiter (app/utils.py)                                              *)
(***************************************************************************)
Keys == {"global", "gpt"}
Budgets == 1..MaxBudget
Windows == 1..MaxWindow
\* ticks between the two datetime.now() reads of one check_rate_limit call
Latencies == {0, 1}

NoCall == [op |-> "none"]
SeveralMax == {-1}

\* the max_requests values a key has been used with
NoteMax(old, max_requests) ==
    IF old = {} \/ old = {max_requests} THEN {max_requests} ELSE SeveralMax

\* a mutation of CleanOld: the window bound is inclusive
CleanOld_Inclusive(reqs, t, window_ms) ==
    SelectSeq(reqs, LAMBDA req_time : req_time >= t - window_ms)

\* a mutation of CleanOld: the window is one tick short
CleanOld_ShortWindow(reqs, t, window_ms) ==
    SelectSeq(reqs, LAMBDA req_time : req_time > t - window_ms + 1)

\* _clean_old_requests: keep the instants strictly after now - window
CleanOld(reqs, t, window_ms) ==
    SelectSeq(reqs, LAMBDA req_time : req_time > t - window_ms)

\* a mutation of Allowed: off by one in the comparison
Allowed_OffByOne(reqs, max_requests) ==
    ~(Len(reqs) > max_requests)

\* check_rate_limit, the decision: len(self.requests[key]) >= max_requests
\* returns False
Allowed(reqs, max_requests) ==
    ~(Len(reqs) >= max_requests)

\* a mutation of Record: a rejected call is recorded too
Record_Always(reqs, ok, stamp) ==
    Append(reqs, stamp)

\* check_rate_limit, the recording: append datetime.now() when admitted
Record(reqs, ok, stamp) ==
    IF ok THEN Append(reqs, stamp) ELSE reqs


\* check_rate_limit(key, max_requests, window_ms) under serialized access:
\* purge at instant now, decide, append at the instant of the second clock read
Admit(key, max_requests, window_ms, delay) ==
    LET purged == CleanOld(requests[key], now, window_ms)
        ok == Allowed(purged, max_requests)
        stamp == IF ok THEN now + delay ELSE now
        after == Record(purged, ok, stamp)
    IN  /\ now + delay <= MaxTime
        /\ ~ok => delay = 0
        /\ requests' = [requests EXCEPT ![key] = after]
        /\ now' = stamp
        /\ lastCall' = [op |-> "admit", key |-> key, max |-> max_requests,
                        window |-> window_ms, result |-> ok, at |-> now,
                        stamp |-> stamp,
                        dropped |-> Len(requests[key]) - Len(purged)]
        /\ maxOf' = [maxOf EXCEPT ![key] = NoteMax(@, max_requests)]
        /\ lastAdmit' = [lastAdmit EXCEPT ![key] = IF ok THEN stamp ELSE @]

AdmitCall ==
    \E key \in Keys, max_requests \in Budgets, window_ms \in Windows,
       delay \in Latencies :
        /\ Admit(key, max_requests, window_ms, delay)
        /\ UNCHANGED racers
        /\ UNCHANGED turnVars
        /\ UNCHANGED historyVars

\* time passes between calls
Tick ==
    /\ now < MaxTime
    /\ now' = now + 1
    /\ UNCHANGED <<requests, lastCall, maxOf, lastAdmit, racers>>
    /\ UNCHANGED turnVars
    /\ UNCHANGED historyVars

\* time passes after the last call of check_rate_limit: no key is admitted
\* or purged any more, the queries alone go on
Wait ==
    /\ now >= MaxTime
    /\ now < MaxTime + MaxIdle
    /\ now' = now + 1
    /\ UNCHANGED <<requests, lastCall, maxOf, lastAdmit, racers>>
    /\ UNCHANGED turnVars
    /\ UNCHANGED historyVars

\* settings.RATE_LIMIT_WINDOW_MS, in ticks
RATE_LIMIT_WINDOW_MS == MaxWindow

\* settings.RATE_LIMIT_MAX_REQUESTS (500 in app/config.py), scaled down
RATE_LIMIT_MAX_REQUESTS == MaxBudget

\* settings.PROVIDER_RATE_LIMITS
PROVIDER_RATE_LIMITS == [k \in Keys \ {"global"} |-> ProviderBudget]

\* get_remaining_requests, lines 56-61: the budget of a key
BudgetOf(key) ==
    IF key = "global" THEN RATE_LIMIT_MAX_REQUESTS
    ELSE PROVIDER_RATE_LIMITS[key]

\* a mutation of RemainingRequests: the timestamps are counted as they are
RemainingRequests_Unpurged(reqs, t, key) ==
    BudgetOf(key) - Len(reqs)

\* get_remaining_requests, lines 64-65: the budget of the key minus the
\* number of timestamps the purge leaves
RemainingRequests(reqs, t, key) ==
    BudgetOf(key) - Len(CleanOld(reqs, t, RATE_LIMIT_WINDOW_MS))

\* get_remaining_requests(key): the key is purged and the number returned
GetRemaining(key) ==
    LET purged == CleanOld(requests[key], now, RATE_LIMIT_WINDOW_MS)
    IN  /\ requests' = [requests EXCEPT ![key] = purged]
        /\ lastCall' = [op |-> "remaining", key |-> key,
                        remaining |-> RemainingRequests(requests[key], now,
                                                        key),
                        at |-> now,
                        dropped |-> Len(requests[key]) - Len(purged)]
        /\ UNCHANGED <<now, maxOf, lastAdmit, racers>>

RemainingCall ==
    \E key \in Keys :
        /\ GetRemaining(key)
        /\ UNCHANGED turnVars
        /\ UNCHANGED historyVars

\* check_rate_limit called with the settings of the key: its budget and
\* RATE_LIMIT_WINDOW_MS, the same at every call
AdmitConfigured ==
    \E key \in Keys, delay \in Latencies :
        /\ Admit(key, BudgetOf(key), RATE_LIMIT_WINDOW_MS, delay)
        /\ admitted' = [admitted EXCEPT ![key] =
                IF lastCall'.result THEN Append(@, lastCall'.stamp) ELSE @]
        /\ UNCHANGED <<racers, started>>
        /\ UNCHANGED turnVars

\* min(self.requests[key]) of a list that is not empty
Oldest(reqs) ==
    CHOOSE t \in {reqs[i] : i \in 1..Len(reqs)} :
        \A i \in 1..Len(reqs) : t <= reqs[i]

\* int(timedelta.total_seconds()): the whole seconds of a duration in
\* ticks, truncated toward zero
WholeSeconds(ticks) ==
    IF ticks >= 0 THEN ticks \div TicksPerSecond
    ELSE -((-ticks) \div TicksPerSecond)

\* a mutation of ResetTime: the last timestamp of the list is taken
ResetTime_Newest(reqs, t) ==
    IF reqs = <<>> THEN 0
    ELSE WholeSeconds(reqs[Len(reqs)] + RATE_LIMIT_WINDOW_MS - t)

\* get_reset_time, lines 77-82: 0 for a key without timestamps, else the
\* whole seconds from now to the oldest timestamp plus the window
ResetTime(reqs, t) ==
    IF reqs = <<>> THEN 0
    ELSE WholeSeconds(Oldest(reqs) + RATE_LIMIT_WINDOW_MS - t)

\* get_reset_time(key): nothing is purged and the number is returned
GetResetTime(key) ==
    /\ lastCall' = [op |-> "reset", key |-> key,
                    reset |-> ResetTime(requests[key], now), at |-> now]
    /\ UNCHANGED <<requests, now, maxOf, lastAdmit, racers>>

ResetCall ==
    \E key \in Keys :
        /\ GetResetTime(key)
        /\ UNCHANGED turnVars
        /\ UNCHANGED historyVars

\* the providers whose streams are followed
StreamProviders == {"gpt", "gemini"}

\* stream_response, line 366: a stream is started and its message_id is made
\* of the provider and of the clock in milliseconds
AssignMessageId ==
    /\ Len(started) < MaxTurns
    /\ \E provider \in StreamProviders :
            started' = Append(started, <<provider, now>>)
    /\ UNCHANGED <<requests, now, lastCall, maxOf, lastAdmit, racers,
                   admitted>>
    /\ UNCHANGED turnVars

\* the threads that are inside check_rate_limit at the same time
Racers == 1..NumRacers

\* a thread that is not inside check_rate_limit
IdleRacer == [pc |-> "idle", max |-> 0, held |-> <<>>]

\* the key the threads race on
RaceKey == "global"

\* the length at which the model stops appending to the list of the key
MaxRetained == MaxBudget + NumRacers + 1

\* _clean_old_requests, lines 32-37, the right-hand side: a thread reads the
\* clock and builds the list of the timestamps inside the window (all the
\* threads check the key against the one budget it has)
RaceFilter(r) ==
    /\ racers[r].pc = "idle"
    /\ \E max_requests \in Budgets :
        /\ maxOf[RaceKey] \in {{}, {max_requests}}
        /\ racers' = [racers EXCEPT ![r] =
                [pc |-> "filtered", max |-> max_requests,
                 held |-> CleanOld(requests[RaceKey], now,
                                   RATE_LIMIT_WINDOW_MS)]]
        /\ maxOf' = [maxOf EXCEPT ![RaceKey] = NoteMax(@, max_requests)]
    /\ UNCHANGED <<requests, now, lastCall, lastAdmit>>
    /\ UNCHANGED turnVars
    /\ UNCHANGED historyVars

\* _clean_old_requests, line 34, the assignment: the list the thread built
\* replaces the list of the key
RaceStore(r) ==
    /\ racers[r].pc = "filtered"
    /\ requests' = [requests EXCEPT ![RaceKey] = racers[r].held]
    /\ racers' = [racers EXCEPT ![r].pc = "cleaned", ![r].held = <<>>]
    /\ UNCHANGED <<now, lastCall, maxOf, lastAdmit>>
    /\ UNCHANGED turnVars
    /\ UNCHANGED historyVars

\* check_rate_limit, lines 45-46: the thread compares the length of the list
\* with max_requests and returns False when the key is full
RaceCheck(r) ==
    /\ racers[r].pc = "cleaned"
    /\ racers' = [racers EXCEPT ![r] =
            IF Allowed(requests[RaceKey], racers[r].max)
            THEN [@ EXCEPT !.pc = "allowed"]
            ELSE IdleRacer]
    /\ UNCHANGED <<requests, now, lastCall, maxOf, lastAdmit>>
    /\ UNCHANGED turnVars
    /\ UNCHANGED historyVars

\* check_rate_limit, lines 48-49: the thread appends datetime.now() and
\* returns True
RaceAppend(r) ==
    /\ racers[r].pc = "allowed"
    /\ Len(requests[RaceKey]) < MaxRetained
    /\ requests' = [requests EXCEPT ![RaceKey] = Record(@, TRUE, now)]
    /\ racers' = [racers EXCEPT ![r] = IdleRacer]
    /\ UNCHANGED <<now, lastCall, maxOf, lastAdmit>>
    /\ UNCHANGED turnVars
    /\ UNCHANGED historyVars

\* one step of one of the threads
RaceStep ==
    \E r \in Racers :
        \/ RaceFilter(r)
        \/ RaceStore(r)
        \/ RaceCheck(r)
        \/ RaceAppend(r)

InitLimiter ==
    /\ requests = [k \in Keys |-> <<>>]
    /\ now = 0
    /\ lastCall = NoCall
    /\ maxOf = [k \in Keys |-> {}]
    /\ lastAdmit = [k \in Keys |-> -1]
    /\ racers = [r \in Racers |-> IdleRacer]
    /\ admitted = [k \in Keys |-> <<>>]
    /\ started = <<>>

NextLimiter ==
    \/ AdmitCall
    \/ Tick

NextQuery ==
    \/ AdmitCall
    \/ RemainingCall
    \/ Tick

NextRace ==
    \/ RaceStep
    \/ Tick

NextWindow ==
    \/ AdmitConfigured
    \/ ResetCall
    \/ Tick
    \/ Wait

NextIds ==
    \/ AssignMessageId
    \/ Tick

(***************************************************************************)
(* Text (a string is a sequence of one-character strings)                  *)
(***************************************************************************)
\* "a", "b": printable; " ": printable whitespace; "\t": whitespace that
\* str.isprintable() rejects
Chars == {"a", "b", " ", "\t"}

\* str.isspace() of one character
IsSpace(c) == c \in {" ", "\t"}

\* str.isprintable() of one character
IsPrintable(c) == c \in {"a", "b", " "}

\* a mutation of sanitize_response: the text is returned as it came
Sanitize_Identity(text) ==
    text

\* sanitize_response: drop every character that is not printable
Sanitize(text) ==
    SelectSeq(text, IsPrintable)

RECURSIVE LStrip(_)
\* str.lstrip()
LStrip(text) ==
    IF text # <<>> /\ IsSpace(Head(text)) THEN LStrip(Tail(text)) ELSE text

RECURSIVE RStrip(_)
\* str.rstrip()
RStrip(text) ==
    IF text # <<>> /\ IsSpace(text[Len(text)])
    THEN RStrip(SubSeq(text, 1, Len(text) - 1))
    ELSE text

\* str.strip()
Strip(text) == RStrip(LStrip(text))

(***************************************************************************)
(* Settings (app/config.py)                                                *)
(***************************************************************************)
\* ChatProvider values the model keeps
Providers == {"gpt", "gemini"}

\* settings.MODEL_CONFIGS: the default and the fallback model of a provider
MODEL_CONFIGS ==
    [gpt |-> [default |-> "gpt-4o", fallback |-> "gpt-4o-mini"],
     gemini |-> [default |-> "gemini-2.0-flash", fallback |-> "gemini-1.5-pro"]]

\* model: Optional[str] = None
NoModel == "None"

\* an API key of the settings: None (the variable is not set), the empty
\* string (the variable is set to nothing) or a key
KeyStates == {"none", "empty", "set"}

\* the settings a process can start with, and whether the constructors of
\* the provider clients accept an empty API key (they are not part of the
\* repository: some versions raise, some build the client)
Configs ==
    [enabled : [Providers -> BOOLEAN], key : [Providers -> KeyStates],
     accepts_empty : BOOLEAN]

\* the constructor of the client of a provider succeeds: with a key, and
\* with an empty key when the constructor accepts one
ClientBuilt(c, provider) ==
    \/ c.key[provider] = "set"
    \/ c.key[provider] = "empty" /\ c.accepts_empty

\* ChatService._init_models: a client per enabled provider whose API key
\* is not None and whose constructor did not raise
Models(c) ==
    {p \in Providers : c.enabled[p] /\ ClientBuilt(c, p)}

(***************************************************************************)
(* Request validation (app/models.py)                                      *)
(***************************************************************************)
\* ChatMessage.validate_content: the length of the stripped content is checked
ContentValid(content) ==
    LET content_length == Len(Strip(content))
    IN  /\ ~(content_length < MIN_MESSAGE_LENGTH)
        /\ ~(content_length > MAX_MESSAGE_LENGTH)

\* a mutation of MessagesValid: the maximum itself is refused
MessagesValid_Strict(messages) ==
    Len(messages) < MAX_MESSAGES_IN_CONTEXT

\* ChatRequest.validate_messages: the number of messages is checked
MessagesValid(messages) ==
    ~(Len(messages) > MAX_MESSAGES_IN_CONTEXT)

\* the request body and the path parameter as pydantic and FastAPI accept them
RequestValid(r) ==
    /\ r.provider \in Providers
    /\ \A i \in 1..Len(r.messages) : ContentValid(r.messages[i].content)
    /\ MessagesValid(r.messages)

\* the validated request: validate_content returns the stripped content
Validated(r) ==
    [r EXCEPT !.messages =
        [i \in 1..Len(r.messages) |->
            [r.messages[i] EXCEPT !.content = Strip(r.messages[i].content)]]]

(***************************************************************************)
(* ChatService._get_model (app/services.py)                                *)
(***************************************************************************)
\* a mutation of GetModel: an unknown model name falls back to the default
GetModel_Lenient(c, provider, model_name) ==
    LET config == MODEL_CONFIGS[provider]
    IN  IF model_name = NoModel
           \/ model_name \notin {config.default, config.fallback}
        THEN [ok |-> TRUE, model |-> config.default]
        ELSE [ok |-> TRUE, model |-> model_name]

\* _get_model: 503 when the provider has no client, 400 for a model that is
\* neither the default nor the fallback, the default client when no model is
\* named, a new client for a valid named model; for a named model an API
\* key that is empty raises 503 API_KEY_MISSING inside the try of line 116,
\* which the handler of line 145 turns into 500 MODEL_INITIALIZATION_FAILED
\* (building a client with a key is taken to succeed)
GetModel(c, provider, model_name) ==
    LET config == MODEL_CONFIGS[provider]
    IN  IF provider \notin Models(c)
        THEN [ok |-> FALSE, status |-> 503, error |-> "PROVIDER_NOT_AVAILABLE",
              valid_models |-> <<>>]
        ELSE IF model_name = NoModel
                \/ model_name \notin {config.default, config.fallback}
        THEN IF model_name # NoModel
             THEN [ok |-> FALSE, status |-> 400, error |-> "INVALID_MODEL",
                   valid_models |-> <<config.default, config.fallback>>]
             ELSE [ok |-> TRUE, model |-> config.default]
        ELSE IF c.key[provider] # "set"
        THEN [ok |-> FALSE, status |-> 500,
              error |-> "MODEL_INITIALIZATION_FAILED", valid_models |-> <<>>]
        ELSE [ok |-> TRUE, model |-> model_name]

(***************************************************************************)
(* A chat turn through app/main.py and ChatService.chat (app/services.py)  *)
(***************************************************************************)
Fill(n) == [i \in 1..n |-> "a"]
Msg(role, content) == [role |-> role, content |-> content]

\* a conversation of n messages: a user message, a system message after
\* it, then user messages with another content
Conversation(n) ==
    [i \in 1..n |->
        IF i = 1 THEN Msg("user", <<"a">>)
        ELSE IF i = 2 THEN Msg("system", <<"b">>)
        ELSE Msg("user", <<"a", "b">>)]

\* the message lists a caller submits: valid ones, one to strip, a blank
\* one, one too long, one message too many, one of the maximal length, as
\* many messages as allowed, and a padded one
Bodies ==
    {<<Msg("user", <<"a">>)>>,
     <<Msg("system", <<"b">>), Msg("user", <<" ", "a", "\t">>)>>,
     <<Msg("user", <<" ">>)>>,
     <<Msg("user", Fill(MAX_MESSAGE_LENGTH + 1))>>,
     [i \in 1..(MAX_MESSAGES_IN_CONTEXT + 1) |-> Msg("user", <<"a">>)],
     <<Msg("user", Fill(MAX_MESSAGE_LENGTH))>>,
     Conversation(MAX_MESSAGES_IN_CONTEXT),
     <<Msg("user", <<" ", "a">>)>>}

\* the provider path parameters a caller uses
PathProviders == Providers \cup {"bogus"}

\* the model names a caller asks a provider for
ModelChoices(provider) ==
    IF provider \in Providers
    THEN {NoModel, MODEL_CONFIGS[provider].default,
          MODEL_CONFIGS[provider].fallback, "other-model"}
    ELSE {NoModel}

\* the texts an upstream model answers with
UpstreamTexts == {<<"a">>, <<"a", "\t", "b">>}

NoRequest == [entry |-> "none"]
NoResult == [isNone |-> TRUE, content |-> <<>>]
NoError == [status |-> 0, error |-> "", names |-> {}]
NoOutcome == [status |-> 0]
NoUpstream == [state |-> "none", fragments |-> <<>>, input |-> <<>>]

\* the LangChain message classes: HumanMessage, AIMessage, SystemMessage
MessageMap == [user |-> "human", assistant |-> "ai", system |-> "system"]

\* the text of main.py line 310 between the two contents: "\n\nUser: "
Separator == <<"\n", "\n", "U", "s", "e", "r", ":", " ">>

\* main.py lines 305-308: the index of the first message of the list whose
\* role is user, 0 for None
FirstUser(messages) ==
    LET users == {i \in 1..Len(messages) : messages[i].role = "user"}
    IN  IF users = {} THEN 0
        ELSE CHOOSE i \in users : \A j \in users : i <= j

\* main.py _convert_messages: each message is converted by its role; for
\* gemini a system message becomes a HumanMessage of its content, the
\* separator and the content of the first user message of the list (or of
\* its content alone when there is no user message). from lists the input
\* messages whose content the converted message carries.
ConvertMessagesMain(messages, provider) ==
    [i \in 1..Len(messages) |->
        LET msg == messages[i]
            next_user_msg == FirstUser(messages)
        IN  IF provider = "gemini" /\ msg.role = "system"
            THEN IF next_user_msg # 0
                 THEN [role |-> "human",
                       content |-> msg.content \o Separator
                                   \o messages[next_user_msg].content,
                       from |-> <<i, next_user_msg>>]
                 ELSE [role |-> "human", content |-> msg.content,
                       from |-> <<i>>]
            ELSE [role |-> MessageMap[msg.role], content |-> msg.content,
                  from |-> <<i>>]]

\* ChatService._convert_messages: each message is converted by its role,
\* whatever the provider
ConvertMessagesApp(messages) ==
    [i \in 1..Len(messages) |->
        [role |-> MessageMap[messages[i].role],
         content |-> messages[i].content, from |-> <<i>>]]

\* None, for an instant
NoTime == -1

\* Timer.__init__: start_time and end_time are None
NoTimer == [state |-> "idle", start_time |-> NoTime, end_time |-> NoTime]

\* Timer.__enter__ at instant t
TimerEntered(t) ==
    [state |-> "running", start_time |-> t, end_time |-> NoTime]

\* Timer.__exit__ at instant t
TimerExited(tm, t) ==
    [tm EXCEPT !.state = "exited", !.end_time = t]

\* the truth value of an Optional[float]: None and 0.0 are false
Truthy(t) == t # NoTime /\ t # 0

\* Timer.duration, lines 111-116: end_time - start_time (in ticks) when
\* both are set, else 0
Duration(tm) ==
    IF Truthy(tm.start_time) /\ Truthy(tm.end_time)
    THEN tm.end_time - tm.start_time
    ELSE 0

\* log_chat_request: the record that is logged
LogRecord(provider, messages, duration_ms, success, model) ==
    [provider |-> provider, message_count |-> Len(messages),
     success |-> success, response_time_ms |-> duration_ms, model |-> model]

\* ChatService.chat, line 163: "with Timer() as timer" is entered
TimedEnter ==
    /\ timer.state \in {"idle", "exited"}
    /\ Len(logs) < MaxTurns
    /\ timer' = TimerEntered(now)
    /\ UNCHANGED <<cfg, pc, req, attempt, calls, resolves, raised, logs,
                   outcome, instance, result, upstream, frames, stream,
                   pending>>
    /\ UNCHANGED limiterVars

\* ChatService.chat, lines 189-195, 200-207 and 211-218: the outcome is
\* logged inside the with block, with timer.duration
TimedLog ==
    /\ timer.state = "running"
    /\ \E provider \in {"gpt", "gemini"}, success \in BOOLEAN :
            logs' = Append(logs, LogRecord(provider, <<>>, Duration(timer),
                                           success, "None"))
    /\ timer' = [timer EXCEPT !.state = "logged"]
    /\ UNCHANGED <<cfg, pc, req, attempt, calls, resolves, raised, outcome,
                   instance, result, upstream, frames, stream, pending>>
    /\ UNCHANGED limiterVars

\* ChatService.chat returns or raises: the with block is left
TimedExit ==
    /\ timer.state = "logged"
    /\ timer' = TimerExited(timer, now)
    /\ UNCHANGED <<cfg, pc, req, attempt, calls, resolves, raised, logs,
                   outcome, instance, result, upstream, frames, stream,
                   pending>>
    /\ UNCHANGED limiterVars

\* a caller posts a chat turn to /chat/{provider} of app/main.py
Submit ==
    /\ pc = "idle"
    /\ \E provider \in PathProviders, messages \in Bodies, s \in BOOLEAN :
        \E model \in ModelChoices(provider) :
            req' = [entry |-> "app", provider |-> provider, model |-> model,
                    messages |-> messages, stream |-> s]
    /\ pc' = "middleware"
    /\ UNCHANGED <<cfg, attempt, calls, resolves, raised, logs, outcome,
                   instance, result>>
    /\ UNCHANGED <<upstream, frames, stream, pending>>
    /\ UNCHANGED limiterVars
    /\ UNCHANGED timer

\* a mutation of RateLimitMiddleware: the middleware admits the request on
\* the global key before call_next(request)
RateLimitMiddleware_Admitting ==
    /\ pc = "middleware"
    /\ Admit("global", MaxBudget, MaxWindow, 0)
    /\ UNCHANGED racers
    /\ UNCHANGED historyVars
    /\ UNCHANGED timer
    /\ pc' = "validate"
    /\ UNCHANGED <<cfg, req, attempt, calls, resolves, raised, logs, outcome,
                   instance, result>>
    /\ UNCHANGED <<upstream, frames, stream, pending>>

\* the rate_limit middleware of app/main.py: rate_limit_middleware(request)
\* is a function whose body is pass, then call_next(request)
RateLimitMiddleware ==
    /\ pc = "middleware"
    /\ pc' = "validate"
    /\ UNCHANGED <<cfg, req, attempt, calls, resolves, raised, logs, outcome,
                   instance, result>>
    /\ UNCHANGED <<upstream, frames, stream, pending>>
    /\ UNCHANGED limiterVars
    /\ UNCHANGED timer

\* FastAPI validates the path parameter and the body: 422 when it fails
ValidateRequest ==
    /\ pc = "validate"
    /\ IF RequestValid(req)
       THEN /\ req' = Validated(req)
            /\ pc' = "endpoint"
            /\ UNCHANGED outcome
       ELSE /\ outcome' = [status |-> 422, error |-> "validation",
                           names |-> {}]
            /\ pc' = "done"
            /\ UNCHANGED req
    /\ UNCHANGED <<cfg, attempt, calls, resolves, raised, logs, instance,
                   result>>
    /\ UNCHANGED <<upstream, frames, stream, pending>>
    /\ UNCHANGED limiterVars
    /\ UNCHANGED timer

\* chat of app/main.py, stream = False: await chat_service.chat(...)
EndpointChat ==
    /\ pc = "endpoint"
    /\ ~req.stream
    /\ attempt' = 1
    /\ pc' = "RESOLVING"
    /\ UNCHANGED <<cfg, req, calls, resolves, raised, logs, outcome, instance,
                   result>>
    /\ UNCHANGED <<upstream, frames, stream, pending>>
    /\ UNCHANGED limiterVars
    /\ UNCHANGED timer

\* ChatService.chat, line 165: model_instance = self._get_model(provider,
\* model); an HTTPException is logged by the handler of line 199 and raised
ChatResolve ==
    /\ pc = "RESOLVING"
    /\ LET r == GetModel(cfg, req.provider, req.model)
       IN  /\ resolves' = Append(resolves, r)
           /\ IF r.ok
              THEN /\ instance' = r.model
                   /\ pc' = "INVOKING"
                   /\ UNCHANGED <<raised, logs>>
              ELSE /\ raised' = [status |-> r.status, error |-> r.error,
                                 names |-> {}]
                   /\ logs' = Append(logs, LogRecord(req.provider,
                                        req.messages, Duration(TimerEntered(now)), FALSE, req.model))
                   /\ pc' = "attempt_failed"
                   /\ UNCHANGED instance
    /\ UNCHANGED <<cfg, req, attempt, calls, outcome, result>>
    /\ UNCHANGED <<upstream, frames, stream, pending>>
    /\ UNCHANGED limiterVars
    /\ UNCHANGED timer

\* the condition of line 173 under which the fallback model is tried
FallbackEligible(provider, model) ==
    model = NoModel \/ model # MODEL_CONFIGS[provider].fallback

\* line 194: the model a successful turn is logged with
LoggedModel(provider, model) ==
    IF model # NoModel THEN model ELSE MODEL_CONFIGS[provider].default

\* ChatService.chat, line 169: await model_instance.ainvoke(...) succeeds;
\* the content is sanitized, the turn is logged and the content returned
ChatInvokeOk ==
    /\ pc = "INVOKING"
    /\ \E text \in UpstreamTexts :
        /\ calls' = Append(calls, [kind |-> "primary", model |-> instance,
                                   ok |-> TRUE, text |-> text,
                                   input |-> ConvertMessagesApp(req.messages)])
        /\ result' = [isNone |-> FALSE, content |-> Sanitize(text)]
    /\ logs' = Append(logs, LogRecord(req.provider, req.messages, Duration(TimerEntered(now)), TRUE,
                                      LoggedModel(req.provider, req.model)))
    /\ pc' = "returned"
    /\ UNCHANGED <<cfg, req, attempt, resolves, raised, outcome, instance>>
    /\ UNCHANGED <<upstream, frames, stream, pending>>
    /\ UNCHANGED limiterVars
    /\ UNCHANGED timer

\* ChatService.chat, lines 170-185: ainvoke raises; the fallback model is
\* tried unless the caller asked for it, else HTTPException(500) is raised
ChatInvokeFails ==
    /\ pc = "INVOKING"
    /\ calls' = Append(calls, [kind |-> "primary", model |-> instance,
                               ok |-> FALSE, text |-> <<>>,
                               input |-> ConvertMessagesApp(req.messages)])
    /\ IF FallbackEligible(req.provider, req.model)
       THEN /\ pc' = "FALLBACK_INVOKING"
            /\ UNCHANGED <<raised, logs>>
       ELSE /\ raised' = [status |-> 500,
                          error |-> "Model invocation failed",
                          names |-> {"primary"}]
            /\ logs' = Append(logs, LogRecord(req.provider, req.messages, Duration(TimerEntered(now)),
                                              FALSE, req.model))
            /\ pc' = "attempt_failed"
    /\ UNCHANGED <<cfg, req, attempt, resolves, outcome, instance, result>>
    /\ UNCHANGED <<upstream, frames, stream, pending>>
    /\ UNCHANGED limiterVars
    /\ UNCHANGED timer

\* ChatService.chat, lines 174-178: the fallback model is resolved and
\* invoked, and answers
ChatFallbackOk ==
    /\ pc = "FALLBACK_INVOKING"
    /\ LET r == GetModel(cfg, req.provider,
                         MODEL_CONFIGS[req.provider].fallback)
       IN  /\ r.ok
           /\ resolves' = Append(resolves, r)
           /\ instance' = r.model
           /\ \E text \in UpstreamTexts :
                /\ calls' = Append(calls, [kind |-> "fallback",
                                model |-> r.model, ok |-> TRUE, text |-> text,
                                input |-> ConvertMessagesApp(req.messages)])
                /\ result' = [isNone |-> FALSE, content |-> Sanitize(text)]
    /\ logs' = Append(logs, LogRecord(req.provider, req.messages, Duration(TimerEntered(now)), TRUE,
                                      LoggedModel(req.provider, req.model)))
    /\ pc' = "returned"
    /\ UNCHANGED <<cfg, req, attempt, raised, outcome>>
    /\ UNCHANGED <<upstream, frames, stream, pending>>
    /\ UNCHANGED limiterVars
    /\ UNCHANGED timer

\* ChatService.chat, lines 179-183: the fallback invocation raises too:
\* HTTPException(500, "Fallback to <model> failed: <fallback error>")
ChatFallbackFails ==
    /\ pc = "FALLBACK_INVOKING"
    /\ LET r == GetModel(cfg, req.provider,
                         MODEL_CONFIGS[req.provider].fallback)
       IN  /\ resolves' = Append(resolves, r)
           /\ IF r.ok
              THEN /\ instance' = r.model
                   /\ calls' = Append(calls, [kind |-> "fallback",
                                model |-> r.model, ok |-> FALSE, text |-> <<>>,
                                input |-> ConvertMessagesApp(req.messages)])
                   /\ raised' = [status |-> 500,
                                 error |-> "Fallback failed",
                                 names |-> {"fallback"}]
              ELSE /\ raised' = [status |-> r.status, error |-> r.error,
                                 names |-> {}]
                   /\ UNCHANGED <<instance, calls>>
    /\ logs' = Append(logs, LogRecord(req.provider, req.messages, Duration(TimerEntered(now)), FALSE,
                                      req.model))
    /\ pc' = "attempt_failed"
    /\ UNCHANGED <<cfg, req, attempt, outcome, result>>
    /\ UNCHANGED <<upstream, frames, stream, pending>>
    /\ UNCHANGED limiterVars
    /\ UNCHANGED timer

\* the retry decorator of ChatService.chat (lines 151-156): any exception,
\* HTTPException included, starts another attempt while fewer than
\* stop_after_attempt(3) were made
Retry ==
    /\ pc = "attempt_failed"
    /\ attempt < RETRY_ATTEMPTS
    /\ attempt' = attempt + 1
    /\ pc' = "RESOLVING"
    /\ UNCHANGED <<cfg, req, calls, resolves, raised, logs, outcome, instance,
                   result>>
    /\ UNCHANGED <<upstream, frames, stream, pending>>
    /\ UNCHANGED limiterVars
    /\ UNCHANGED timer

\* the retry decorator after the last attempt: retry_error_callback is
\* called and its value, the None that logger.error returns, is what
\* ChatService.chat returns
GiveUp ==
    /\ pc = "attempt_failed"
    /\ ~(attempt < RETRY_ATTEMPTS)
    /\ result' = NoResult
    /\ pc' = "returned"
    /\ UNCHANGED <<cfg, req, attempt, calls, resolves, raised, logs, outcome,
                   instance>>
    /\ UNCHANGED <<upstream, frames, stream, pending>>
    /\ UNCHANGED limiterVars
    /\ UNCHANGED timer

\* a mutation of EndpointRespond: ChatResponse takes a None content
EndpointRespond_AcceptsNone ==
    /\ pc = "returned"
    /\ outcome' = [status |-> 200, content |-> result.content]
    /\ pc' = "done"
    /\ UNCHANGED <<cfg, req, attempt, calls, resolves, raised, logs, instance,
                   result>>
    /\ UNCHANGED <<upstream, frames, stream, pending>>
    /\ UNCHANGED limiterVars
    /\ UNCHANGED timer

\* chat of app/main.py, lines 77-90: ChatResponse(content=content); a None
\* content fails the validation of ChatResponse, which the handler of line 86
\* turns into HTTPException(500, str(e))
EndpointRespond ==
    /\ pc = "returned"
    /\ outcome' = IF result.isNone
                  THEN [status |-> 500, error |-> "ChatResponse validation",
                        names |-> {}]
                  ELSE [status |-> 200, content |-> result.content]
    /\ pc' = "done"
    /\ UNCHANGED <<cfg, req, attempt, calls, resolves, raised, logs, instance,
                   result>>
    /\ UNCHANGED <<upstream, frames, stream, pending>>
    /\ UNCHANGED limiterVars
    /\ UNCHANGED timer

(***************************************************************************)
(* Streaming turns: stream_response (main.py) and ChatService.chat_stream  *)
(* returned as the body of a StreamingResponse (app/main.py)               *)
(***************************************************************************)
\* Config.MODELS of main.py holds the providers of the model
MainProviders == Providers

\* the fragments an upstream stream delivers; the empty one is the chunk
\* without content that providers send
Fragments == {<<>>, <<"a">>, <<"b", "\t">>}

\* the whole responses the gemini path of stream_response awaits
GeminiTexts == {<<"a">>, <<"a", " ", "b">>, <<"\t", "b">>}

DONE == [type |-> "done"]

\* stream_response, lines 427-444 and 453-470: one content frame
\* data: {"id": message_id, "delta": {"content": token}}
ContentFrame(message_id, token) ==
    [type |-> "content", id |-> message_id, content |-> token]

\* chat_stream yields bare text; StreamingResponse sends it as it is
RawChunk(text) ==
    [type |-> "raw", content |-> text]

RECURSIVE Split(_)
\* str.split(): the maximal runs of characters that are not whitespace
Split(text) ==
    LET rest == LStrip(text)
        n == IF \E i \in 1..Len(rest) : IsSpace(rest[i])
             THEN (CHOOSE i \in 1..Len(rest) :
                      /\ IsSpace(rest[i])
                      /\ \A j \in 1..(i - 1) : ~IsSpace(rest[j])) - 1
             ELSE Len(rest)
    IN  IF rest = <<>>
        THEN <<>>
        ELSE <<SubSeq(rest, 1, n)>> \o Split(SubSeq(rest, n + 1, Len(rest)))

\* ChatMessage.validate_content_length of main.py: the content must not be
\* blank and its length, not stripped, must not exceed the maximum
MainContentValid(content) ==
    /\ Strip(content) # <<>>
    /\ ~(Len(content) > MAX_MESSAGE_LENGTH)

\* the body of a main.py request as pydantic accepts it: model is a
\* required string, the provider path parameter is any string
MainRequestValid(r) ==
    /\ r.model # NoModel
    /\ \A i \in 1..Len(r.messages) : MainContentValid(r.messages[i].content)
    /\ MessagesValid(r.messages)

\* chat of main.py, lines 519-529: the provider is one of Config.MODELS and
\* the model its default or its fallback
MainModelValid(provider, model) ==
    /\ provider \in MainProviders
    /\ model \in {MODEL_CONFIGS[provider].default,
                  MODEL_CONFIGS[provider].fallback}

\* a caller posts a chat turn to /chat/{provider} of main.py
SubmitMain ==
    /\ pc = "idle"
    /\ \E provider \in PathProviders, messages \in Bodies :
        \E model \in ModelChoices(provider) :
            req' = [entry |-> "main", provider |-> provider, model |-> model,
                    messages |-> messages, stream |-> TRUE]
    /\ pc' = "main_validate"
    /\ UNCHANGED <<cfg, attempt, calls, resolves, raised, logs, outcome,
                   instance, result, upstream, frames, stream, pending>>
    /\ UNCHANGED limiterVars
    /\ UNCHANGED timer

\* FastAPI validates the body of a main.py request: 422 when it fails
MainValidateRequest ==
    /\ pc = "main_validate"
    /\ IF MainRequestValid(req)
       THEN /\ pc' = "main_endpoint"
            /\ UNCHANGED outcome
       ELSE /\ outcome' = [status |-> 422, error |-> "validation",
                           names |-> {}]
            /\ pc' = "done"
    /\ UNCHANGED <<cfg, req, attempt, calls, resolves, raised, logs, instance,
                   result, upstream, frames, stream, pending>>
    /\ UNCHANGED limiterVars
    /\ UNCHANGED timer

\* chat of main.py, lines 518-570: an unknown provider or model raises
\* HTTPException(400) inside the try, which the handler of line 558 turns
\* into HTTPException(500); else the StreamingResponse is returned and its
\* status line is sent before stream_response runs
MainEndpoint ==
    /\ pc = "main_endpoint"
    /\ IF MainModelValid(req.provider, req.model)
       THEN /\ outcome' = [status |-> 200]
            /\ stream' = "open"
            /\ pc' = "main_stream_start"
       ELSE /\ outcome' = [status |-> 500, error |-> "Chat error",
                           names |-> {}]
            /\ pc' = "done"
            /\ UNCHANGED stream
    /\ UNCHANGED <<cfg, req, attempt, calls, resolves, raised, logs, instance,
                   result, upstream, frames, pending>>
    /\ UNCHANGED limiterVars
    /\ UNCHANGED timer

\* stream_response, lines 392-410: _get_llm builds the client (it raises
\* HTTPException(500) when the client cannot be built, as without an API
\* key), then the generation task is started
MainStreamStart ==
    /\ pc = "main_stream_start"
    /\ IF ClientBuilt(cfg, req.provider)
       THEN /\ instance' = req.model
            /\ upstream' = [state |-> "running", fragments |-> <<>>,
                            input |-> ConvertMessagesMain(req.messages,
                                                          req.provider)]
            /\ pc' = IF req.provider = "gemini" THEN "gemini_wait"
                     ELSE "main_streaming"
            /\ UNCHANGED <<stream, raised>>
       ELSE /\ raised' = [status |-> 500, error |-> "Failed to initialize",
                          names |-> {}]
            /\ stream' = "aborted"
            /\ pc' = "done"
            /\ UNCHANGED <<instance, upstream>>
    /\ UNCHANGED <<cfg, req, attempt, calls, resolves, logs, outcome, result,
                   frames, pending>>
    /\ UNCHANGED limiterVars
    /\ UNCHANGED timer

\* the turn identifier of line 366: f"{provider}-{int(time.time()*1000)}"
MessageId == <<req.provider, now>>

\* stream_response, lines 448-470: the callback delivers a token; a frame
\* is yielded for it unless it is empty
MainToken ==
    /\ pc = "main_streaming"
    /\ Len(upstream.fragments) < MaxFragments
    /\ \E token \in Fragments :
        /\ upstream' = [upstream EXCEPT !.fragments = Append(@, token)]
        /\ frames' = IF token # <<>>
                     THEN Append(frames, ContentFrame(MessageId, token))
                     ELSE frames
    /\ UNCHANGED <<cfg, pc, req, attempt, calls, resolves, raised, logs,
                   outcome, instance, result, stream, pending>>
    /\ UNCHANGED limiterVars
    /\ UNCHANGED timer

\* stream_response, lines 472-498: the token iterator ends, the task has
\* completed, data: [DONE] is yielded and the generator returns
MainComplete ==
    /\ pc = "main_streaming"
    /\ upstream' = [upstream EXCEPT !.state = "completed"]
    /\ frames' = Append(frames, DONE)
    /\ stream' = "closed"
    /\ pc' = "done"
    /\ UNCHANGED <<cfg, req, attempt, calls, resolves, raised, logs, outcome,
                   instance, result, pending>>
    /\ UNCHANGED limiterVars
    /\ UNCHANGED timer

\* stream_response, lines 473-484 and 500-511: the task raises; both
\* handlers log and re-raise, so the generator ends by an exception after
\* the response has started; generic_exception_handler (line 583) builds a
\* new response, which cannot be sent on a response that has started, so
\* nothing more reaches the caller
MainFail ==
    /\ pc \in {"main_streaming", "gemini_wait"}
    /\ upstream' = [upstream EXCEPT !.state = "failed"]
    /\ raised' = [status |-> 500, error |-> "upstream", names |-> {"primary"}]
    /\ stream' = "aborted"
    /\ pc' = "done"
    /\ UNCHANGED <<cfg, req, attempt, calls, resolves, logs, outcome, instance,
                   result, frames, pending>>
    /\ UNCHANGED limiterVars
    /\ UNCHANGED timer

\* stream_response, lines 415-421: for gemini the whole response is awaited
\* and split at whitespace
GeminiResult ==
    /\ pc = "gemini_wait"
    /\ \E response_text \in GeminiTexts :
        /\ upstream' = [state |-> "completed",
                        fragments |-> <<response_text>>,
                        input |-> upstream.input]
        /\ pending' = Split(response_text)
    /\ pc' = "gemini_emit"
    /\ UNCHANGED <<cfg, req, attempt, calls, resolves, raised, logs, outcome,
                   instance, result, frames, stream>>
    /\ UNCHANGED limiterVars
    /\ UNCHANGED timer

\* stream_response, lines 422-445: one frame per token, a space added to it
GeminiToken ==
    /\ pc = "gemini_emit"
    /\ pending # <<>>
    /\ frames' = Append(frames,
                    ContentFrame(MessageId, Append(Head(pending), " ")))
    /\ pending' = Tail(pending)
    /\ UNCHANGED <<cfg, pc, req, attempt, calls, resolves, raised, logs,
                   outcome, instance, result, upstream, stream>>
    /\ UNCHANGED limiterVars
    /\ UNCHANGED timer

\* stream_response, line 498, after the last gemini token
GeminiDone ==
    /\ pc = "gemini_emit"
    /\ pending = <<>>
    /\ frames' = Append(frames, DONE)
    /\ stream' = "closed"
    /\ pc' = "done"
    /\ UNCHANGED <<cfg, req, attempt, calls, resolves, raised, logs, outcome,
                   instance, result, upstream, pending>>
    /\ UNCHANGED limiterVars
    /\ UNCHANGED timer

\* chat of app/main.py, stream = True: StreamingResponse(chat_stream(...));
\* the status line is sent before the generator runs
EndpointStream ==
    /\ pc = "endpoint"
    /\ req.stream
    /\ outcome' = [status |-> 200]
    /\ stream' = "open"
    /\ pc' = "app_stream_start"
    /\ UNCHANGED <<cfg, req, attempt, calls, resolves, raised, logs, instance,
                   result, upstream, frames, pending>>
    /\ UNCHANGED limiterVars
    /\ UNCHANGED timer

\* chat_stream, lines 235-238 and 250-259: _get_model; its HTTPException is
\* logged and raised out of the generator, else astream is started
AppStreamStart ==
    /\ pc = "app_stream_start"
    /\ LET r == GetModel(cfg, req.provider, req.model)
       IN  /\ resolves' = Append(resolves, r)
           /\ IF r.ok
              THEN /\ instance' = r.model
                   /\ upstream' = [state |-> "running", fragments |-> <<>>,
                                   input |-> ConvertMessagesApp(req.messages)]
                   /\ pc' = "app_streaming"
                   /\ UNCHANGED <<raised, logs, stream>>
              ELSE /\ raised' = [status |-> r.status, error |-> r.error,
                                 names |-> {}]
                   /\ logs' = Append(logs, LogRecord(req.provider,
                        req.messages, Duration(TimerEntered(now)), FALSE,
                        LoggedModel(req.provider, req.model)))
                   /\ stream' = "aborted"
                   /\ pc' = "done"
                   /\ UNCHANGED <<instance, upstream>>
    /\ UNCHANGED <<cfg, req, attempt, calls, outcome, result, frames, pending>>
    /\ UNCHANGED limiterVars
    /\ UNCHANGED timer

\* chat_stream, lines 238-240: a chunk arrives; its sanitized content is
\* yielded unless the content is empty
AppChunk ==
    /\ pc = "app_streaming"
    /\ Len(upstream.fragments) < MaxFragments
    /\ \E content \in Fragments :
        /\ upstream' = [upstream EXCEPT !.fragments = Append(@, content)]
        /\ frames' = IF content # <<>>
                     THEN Append(frames, RawChunk(Sanitize(content)))
                     ELSE frames
    /\ UNCHANGED <<cfg, pc, req, attempt, calls, resolves, raised, logs,
                   outcome, instance, result, stream, pending>>
    /\ UNCHANGED limiterVars
    /\ UNCHANGED timer

\* chat_stream, lines 242-248: astream ends, the turn is logged and the
\* generator returns
AppStreamComplete ==
    /\ pc = "app_streaming"
    /\ upstream' = [upstream EXCEPT !.state = "completed"]
    /\ logs' = Append(logs, LogRecord(req.provider, req.messages, Duration(TimerEntered(now)), TRUE,
                                      LoggedModel(req.provider, req.model)))
    /\ stream' = "closed"
    /\ pc' = "done"
    /\ UNCHANGED <<cfg, req, attempt, calls, resolves, raised, outcome,
                   instance, result, frames, pending>>
    /\ UNCHANGED limiterVars
    /\ UNCHANGED timer

\* chat_stream, lines 260-273: astream raises; the failure is logged and
\* HTTPException(500) is raised out of the generator
AppStreamFail ==
    /\ pc = "app_streaming"
    /\ upstream' = [upstream EXCEPT !.state = "failed"]
    /\ raised' = [status |-> 500, error |-> "Streaming chat completion failed",
                  names |-> {"primary"}]
    /\ logs' = Append(logs, LogRecord(req.provider, req.messages, Duration(TimerEntered(now)), FALSE,
                                      LoggedModel(req.provider, req.model)))
    /\ stream' = "aborted"
    /\ pc' = "done"
    /\ UNCHANGED <<cfg, req, attempt, calls, resolves, outcome, instance,
                   result, frames, pending>>
    /\ UNCHANGED limiterVars
    /\ UNCHANGED timer

\* the caller disconnects while the stream is open and Starlette cancels
\* the task that iterates the body: chat_stream is cancelled inside astream
\* (lines 238-240), which ends the upstream call; stream_response is
\* cancelled for gemini inside "await task" (line 417), which cancels the
\* task, and for the other providers inside callback.aiter() or at its
\* yield (lines 448-470), where the task of line 410 is not awaited and
\* nothing cancels it (CancelledError passes the handlers of lines 475 and
\* 500, which catch Exception)
Disconnect ==
    /\ pc \in {"app_streaming", "main_streaming", "gemini_wait", "gemini_emit"}
    /\ stream' = "abandoned"
    /\ IF pc = "main_streaming"
       THEN /\ pc' = "orphaned"
            /\ UNCHANGED upstream
       ELSE /\ pc' = "done"
            /\ upstream' = IF upstream.state = "running"
                           THEN [upstream EXCEPT !.state = "cancelled"]
                           ELSE upstream
    /\ UNCHANGED <<cfg, req, attempt, calls, resolves, raised, logs, outcome,
                   instance, result, frames, pending>>
    /\ UNCHANGED limiterVars
    /\ UNCHANGED timer

\* the states in which the task of line 410 ends when nobody reads it
UnobservedEnds == {"completed_unobserved", "failed_unobserved"}

\* stream_response, line 410: the generation task of an abandoned stream
\* runs on until the upstream has answered or failed
OrphanedTaskEnds ==
    /\ pc = "orphaned"
    /\ \E end \in UnobservedEnds :
            upstream' = [upstream EXCEPT !.state = end]
    /\ pc' = "done"
    /\ UNCHANGED <<cfg, req, attempt, calls, resolves, raised, logs, outcome,
                   instance, result, frames, stream, pending>>
    /\ UNCHANGED limiterVars
    /\ UNCHANGED timer

InitTurn ==
    /\ cfg \in Configs
    /\ pc = "idle"
    /\ req = NoRequest
    /\ attempt = 0
    /\ calls = <<>>
    /\ resolves = <<>>
    /\ raised = NoError
    /\ logs = <<>>
    /\ outcome = NoOutcome
    /\ instance = NoModel
    /\ result = NoResult
    /\ upstream = NoUpstream
    /\ frames = <<>>
    /\ stream = "none"
    /\ pending = <<>>
    /\ timer = NoTimer

NextTurn ==
    \/ Submit
    \/ RateLimitMiddleware
    \/ ValidateRequest
    \/ EndpointChat
    \/ ChatResolve
    \/ ChatInvokeOk
    \/ ChatInvokeFails
    \/ ChatFallbackOk
    \/ ChatFallbackFails
    \/ Retry
    \/ GiveUp
    \/ EndpointRespond
    \/ EndpointStream
    \/ AppStreamStart
    \/ AppChunk
    \/ AppStreamComplete
    \/ AppStreamFail
    \/ SubmitMain
    \/ MainValidateRequest
    \/ MainEndpoint
    \/ MainStreamStart
    \/ MainToken
    \/ MainComplete
    \/ MainFail
    \/ GeminiResult
    \/ GeminiToken
    \/ GeminiDone
    \/ Disconnect
    \/ OrphanedTaskEnds

vars == <<requests, now, lastCall, maxOf, lastAdmit, racers, admitted,
          started, cfg, pc, req, attempt,
          calls, resolves, raised, logs, outcome, instance, result, upstream,
          frames, stream, pending, timer>>

\* the process after start, no chat turn under way
InitLimiterOnly ==
    /\ InitLimiter
    /\ InitTurn
    /\ cfg = [enabled |-> [p \in Providers |-> TRUE],
              key |-> [p \in Providers |-> "set"],
              accepts_empty |-> FALSE]

\* the process after start, under any settings
InitChat ==
    /\ InitLimiter
    /\ InitTurn

\* the rate limiter alone, called by serialized callers
SpecLimiter == InitLimiterOnly /\ [][NextLimiter]_vars

\* the rate limiter and its queries, called by serialized callers
SpecQuery == InitLimiterOnly /\ [][NextQuery]_vars

\* the rate limiter called by threads with no lock between them
SpecRace == InitLimiterOnly /\ [][NextRace]_vars

\* the rate limiter called with the settings of each key, and its reset
\* query, by serialized callers
SpecWindow == InitLimiterOnly /\ [][NextWindow]_vars

\* the streams started by concurrent requests
SpecIds == InitLimiterOnly /\ [][NextIds]_vars

\* the steps of a turn of app/main.py that is not streamed
NextChat ==
    \/ Submit
    \/ RateLimitMiddleware
    \/ ValidateRequest
    \/ EndpointChat
    \/ ChatResolve
    \/ ChatInvokeOk
    \/ ChatInvokeFails
    \/ ChatFallbackOk
    \/ ChatFallbackFails
    \/ Retry
    \/ GiveUp
    \/ EndpointRespond

\* one turn of app/main.py that is not streamed; the event loop runs the
\* coroutine of the turn on, and every upstream invocation returns or
\* raises
SpecChat == InitChat /\ [][NextChat]_vars /\ WF_vars(NextChat)

\* the with block of ChatService.chat while time passes
NextTimer ==
    \/ TimedEnter
    \/ TimedLog
    \/ TimedExit
    \/ Tick

\* the Timer of the turns of ChatService.chat, one after the other
SpecTimer == InitLimiterOnly /\ [][NextTimer]_vars

\* one chat turn, from the request to the response
SpecTurn == InitChat /\ [][NextTurn]_vars

(***************************************************************************)
(* Claims about the rate limiter, checked under SpecLimiter                *)
(***************************************************************************)
FixedMax(k, m) == maxOf[k] = {m}

\* C1: under serialized access, a key that has only ever been used with one
\* fixed max_requests never retains more than max_requests timestamps.
C1_CountNeverExceedsMax ==
    \A k \in Keys, m \in Budgets : FixedMax(k, m) => Len(requests[k]) <= m

\* C1 witness: a key used with one fixed max_requests is full and the last
\* call on it was rejected.
C1_Witness ==
    /\ lastCall.op = "admit"
    /\ FixedMax(lastCall.key, MaxBudget)
    /\ ~lastCall.result
    /\ Len(requests[lastCall.key]) = MaxBudget

\* a step in which check_rate_limit was called
AdmitStep == lastCall' # lastCall \/ requests' # requests

\* what the call of an admit step left of the key's earlier timestamps
KeptByCall ==
    LET after == requests'[lastCall'.key]
    IN  IF lastCall'.result THEN SubSeq(after, 1, Len(after) - 1) ELSE after

\* C2: every admit call purges the key's expired timestamps (all those older
\* than the window are dropped, all those younger are kept), returns True
\* exactly when the purged count is below max_requests, appends exactly one
\* timestamp (the instant of the call) when it returns True, records nothing
\* when it returns False, and leaves every other key's window unchanged.
C2_AdmitContract ==
    [][AdmitStep =>
        LET call == lastCall'
            before == requests[call.key]
            after == requests'[call.key]
        IN  /\ \/ KeptByCall = SelectSeq(before,
                        LAMBDA t : call.at - t < call.window)
               \/ KeptByCall = SelectSeq(before,
                        LAMBDA t : call.at - t <= call.window)
            /\ call.result <=> (Len(KeptByCall) < call.max)
            /\ call.result =>
                    /\ Len(after) = Len(KeptByCall) + 1
                    /\ after[Len(after)] = now'
                    /\ call.at = now
            /\ ~call.result => after = KeptByCall
            /\ \A k \in Keys \ {call.key} : requests'[k] = requests[k]]_vars

\* C2 witness: an admitted call that purged an expired timestamp while
\* another key held timestamps of its own.
C2_Witness ==
    /\ lastCall.op = "admit"
    /\ lastCall.result
    /\ lastCall.dropped > 0
    /\ \E k \in Keys \ {lastCall.key} : requests[k] # <<>>

\* C3: on a key only ever used with max_requests = 1, an admit returns True
\* exactly when the key was never admitted before or the window of the call
\* has elapsed since the last admitted call: the first call is admitted, a
\* second one within the window is rejected, and one made once the window
\* has elapsed is admitted again.
C3_ReadmittedAfterWindow ==
    [][(AdmitStep /\ maxOf'[lastCall'.key] = {1}) =>
        LET call == lastCall'
        IN  call.result <=>
                \/ lastAdmit[call.key] = -1
                \/ call.at - lastAdmit[call.key] >= call.window]_vars

\* C3 witness: a key with max_requests = 1 that was admitted before is
\* admitted again, the earlier timestamp having left the window.
C3_Witness ==
    /\ lastCall.op = "admit"
    /\ FixedMax(lastCall.key, 1)
    /\ lastCall.result
    /\ lastCall.dropped = 1
    /\ requests[lastCall.key] = <<lastCall.stamp>>

(***************************************************************************)
(* Claims about a chat turn, checked under SpecTurn                        *)
(***************************************************************************)
\* a non-streaming turn of app/main.py that reached ChatService.chat, ended
NonStreamingDone ==
    /\ pc = "done"
    /\ req.entry = "app"
    /\ ~req.stream
    /\ resolves # <<>>

PrimaryFailed == \E i \in 1..Len(calls) : calls[i].kind = "primary" /\ ~calls[i].ok
FallbackInvoked == \E i \in 1..Len(calls) : calls[i].kind = "fallback"
FallbackSucceeded == \E i \in 1..Len(calls) : calls[i].kind = "fallback" /\ calls[i].ok
Pinned == req.model = MODEL_CONFIGS[req.provider].fallback
CountKind(kind) == Len(SelectSeq(calls, LAMBDA c : c.kind = kind))

\* C4 (as claimed): in a non-streaming turn the fallback model is invoked
\* exactly when the primary invocation failed and the caller did not ask for
\* the fallback model; when the caller pinned the fallback model and its
\* invocation fails, no second invocation is made and the turn fails; when
\* the fallback invocation succeeds the turn succeeds with its result.
C4_FallbackProtocol ==
    NonStreamingDone =>
        /\ FallbackInvoked <=> (PrimaryFailed /\ ~Pinned)
        /\ (Pinned /\ PrimaryFailed) =>
                (Len(calls) = 1 /\ outcome.status # 200)
        /\ FallbackSucceeded =>
                outcome = [status |-> 200,
                           content |-> Sanitize(calls[Len(calls)].text)]

\* C5 (as claimed): over one turn the primary model is invoked at most once
\* and the fallback model at most once, and nothing is invoked after the
\* fallback attempt.
C5_AtMostOneInvocationEach ==
    /\ CountKind("primary") <= 1
    /\ CountKind("fallback") <= 1
    /\ \A i \in 1..Len(calls) : calls[i].kind = "fallback" => i = Len(calls)

\* C6 (as claimed): when the primary invocation and the fallback invocation
\* of ChatService.chat both fail, the error it raises names both failures.
C6_ErrorNamesBothFailures ==
    (/\ pc = "attempt_failed"
     /\ Len(calls) >= 2
     /\ calls[Len(calls)].kind = "fallback"
     /\ ~calls[Len(calls)].ok
     /\ ~calls[Len(calls) - 1].ok) =>
        {"primary", "fallback"} \subseteq raised.names

\* C7 (as claimed): a turn whose provider or model resolution fails ends
\* with the originating error (503 PROVIDER_NOT_AVAILABLE or 400
\* INVALID_MODEL) after a single resolution; no retry, no fallback.
C7_ResolutionFailureSurfacesOnce ==
    (NonStreamingDone /\ ~resolves[1].ok) =>
        /\ outcome.status = resolves[1].status
        /\ outcome.error = resolves[1].error
        /\ Len(resolves) = 1
        /\ ~FallbackInvoked

\* the turn's request was refused by validation
ValidationFailed == outcome.status = 422

\* the turn's provider or model cannot be resolved: the provider is unknown,
\* disabled or without API key, or the model is neither its default nor its
\* fallback model
ResolutionFails ==
    /\ req.entry \in {"app", "main"}
    /\ \/ req.provider \notin Providers
       \/ ~ClientBuilt(cfg, req.provider)
       \/ req.entry = "app" /\ ~cfg.enabled[req.provider]
       \/ req.model \notin {NoModel, MODEL_CONFIGS[req.provider].default,
                            MODEL_CONFIGS[req.provider].fallback}

\* C8: a turn whose validation, provider resolution or model resolution
\* fails never invokes an upstream model, neither the primary nor the
\* fallback one, streaming or not.
C8_NoUpstreamAfterFailedResolution ==
    (ValidationFailed \/ ResolutionFails) =>
        /\ calls = <<>>
        /\ upstream.state = "none"

\* C8 witness: a non-streaming turn asking for an unknown model went
\* through all the attempts of ChatService.chat and ended.
C8_Witness ==
    /\ pc = "done"
    /\ req.entry = "app"
    /\ ~req.stream
    /\ req.provider \in Models(cfg)
    /\ req.model = "other-model"
    /\ attempt = RETRY_ATTEMPTS
    /\ calls = <<>>

\* the content frames that carry the fragments fs, in order
FramesOf(fs) ==
    [i \in 1..Len(fs) |-> ContentFrame(MessageId, fs[i])]

\* C9 (as claimed): a streaming turn whose upstream yields f1..fn and then
\* completes delivers exactly n content frames carrying f1..fn in order,
\* then exactly one [DONE] frame, and nothing after it.
C9_FramesThenDone ==
    (pc = "done" /\ stream = "closed" /\ upstream.state = "completed") =>
        frames = FramesOf(upstream.fragments) \o <<DONE>>

\* data: {"error": message}
IsErrorFrame(f) == f.type = "error"

\* the stream of the turn has ended and the caller stayed to its end
StreamEnded == pc = "done" /\ stream \in {"closed", "aborted"}

\* C10 (as claimed): a stream whose upstream fails before completion ends
\* with an error frame followed by the end marker, and no stream whose
\* upstream was started ends without a terminator.
C10_FailedStreamTerminated ==
    (StreamEnded /\ upstream.state # "none") =>
        /\ frames # <<>>
        /\ frames[Len(frames)] = DONE
        /\ upstream.state = "failed" =>
                /\ Len(frames) >= 2
                /\ IsErrorFrame(frames[Len(frames) - 1])

\* C11 (as claimed): a stream that has ended holds exactly one terminator,
\* as its last frame: the end-of-stream frame when the upstream completed,
\* an error frame when it raised; never both and never neither.
C11_ExactlyOneTerminator ==
    (StreamEnded /\ upstream.state # "none") =>
        LET ends == {i \in 1..Len(frames) : frames[i] = DONE}
            errors == {i \in 1..Len(frames) : IsErrorFrame(frames[i])}
        IN  /\ Cardinality(ends) + Cardinality(errors) = 1
            /\ ends \cup errors = {Len(frames)}
            /\ upstream.state = "completed" => errors = {}
            /\ upstream.state = "failed" => ends = {}

\* C12 (as claimed): a streaming turn whose primary streaming invocation
\* failed, the caller not having asked for the fallback model, surfaces the
\* failure only after the fallback model was invoked.
C12_StreamingFallback ==
    (/\ StreamEnded
     /\ upstream.state = "failed"
     /\ ~Pinned) =>
        instance = MODEL_CONFIGS[req.provider].fallback

\* C13 (as claimed): once the caller has abandoned a stream, no upstream
\* generation of the turn is running, and none has run to its end with
\* nobody reading it.
C13_AbandonedStreamCancelled ==
    stream = "abandoned" =>
        upstream.state \notin {"running"} \cup UnobservedEnds

\* the turn went on to provider resolution or to an upstream invocation
ReachedProvider ==
    \/ resolves # <<>>
    \/ calls # <<>>
    \/ upstream.state # "none"
    \/ pc = "main_stream_start"

\* C14 (as claimed): a turn goes on to provider resolution and upstream
\* invocation only after admit returned True for the global key and for the
\* key of its provider.
C14_AdmittedOnBothKeys ==
    ReachedProvider =>
        \A k \in Keys : k \in {"global", req.provider} => lastAdmit[k] # -1

\* the request of the turn is malformed: its body fails the validation of
\* the entry it was posted to, or it names a model that is neither the
\* default nor the fallback model of its provider
RequestInvalid ==
    \/ req.entry = "app" /\ ~RequestValid(req)
    \/ req.entry = "main" /\ ~MainRequestValid(req)
    \/ /\ req.entry \in {"app", "main"}
       /\ req.provider \in Providers
       /\ req.model \notin {NoModel, MODEL_CONFIGS[req.provider].default,
                            MODEL_CONFIGS[req.provider].fallback}

C16_RaceOvershootBounded ==
    \A m \in Budgets :
        FixedMax(RaceKey, m) => Len(requests[RaceKey]) <= m + NumRacers

(***************************************************************************)
(* Claims about the queries of the rate limiter, under SpecQuery           *)
(***************************************************************************)
\* C17: for every key, what get_remaining_requests returns plus the number
\* of timestamps the key retains after the call equals the budget of the
\* key (RATE_LIMIT_MAX_REQUESTS for "global", the provider's entry of
\* PROVIDER_RATE_LIMITS for a provider id).
C17_RemainingPlusRetained ==
    lastCall.op = "remaining" =>
        lastCall.remaining + Len(requests[lastCall.key])
            = BudgetOf(lastCall.key)

\* C17 witness: get_remaining_requests has purged an expired timestamp of a
\* key that retains another one.
C17_Witness ==
    /\ lastCall.op = "remaining"
    /\ lastCall.dropped > 0
    /\ requests[lastCall.key] # <<>>
    /\ lastCall.remaining + Len(requests[lastCall.key])
            = BudgetOf(lastCall.key)

(***************************************************************************)
(* Claims about resolution and errors, checked under SpecTurn              *)
(***************************************************************************)
\* the first _get_model call of a turn of app/main.py was made: it resolves
\* the provider and the model of the request
FirstResolved == req.entry = "app" /\ resolves # <<>>

\* C18 (as claimed): for a provider that resolves, _get_model returns the
\* default model when no model is requested, the requested model when it is
\* the default or the fallback model, and otherwise fails with
\* INVALID_MODEL naming [default, fallback].
C18_ResolveModel ==
    (FirstResolved /\ req.provider \in Models(cfg)) =>
        LET r == resolves[1]
            config == MODEL_CONFIGS[req.provider]
        IN  IF req.model = NoModel
            THEN r.ok /\ r.model = config.default
            ELSE IF req.model \in {config.default, config.fallback}
            THEN r.ok /\ r.model = req.model
            ELSE /\ ~r.ok
                 /\ r.error = "INVALID_MODEL"
                 /\ r.valid_models = <<config.default, config.fallback>>

\* the provider is enabled and its API key is present
EnabledWithCredential(c, provider) ==
    /\ provider \in Providers
    /\ c.enabled[provider]
    /\ c.key[provider] = "set"

\* C19 (as claimed): resolving a provider fails with PROVIDER_NOT_AVAILABLE
\* whenever the provider is disabled or has no credential, and succeeds only
\* for a provider that is enabled and has its credential.
C19_ResolveOnlyWithCredential ==
    FirstResolved =>
        /\ resolves[1].ok => EnabledWithCredential(cfg, req.provider)
        /\ ~EnabledWithCredential(cfg, req.provider) =>
                /\ ~resolves[1].ok
                /\ resolves[1].error = "PROVIDER_NOT_AVAILABLE"

\* the provider of the turn is known and has no client
ProviderUnavailable ==
    /\ req.entry = "app"
    /\ req.provider \in Providers
    /\ req.provider \notin Models(cfg)

\* an upstream invocation of the turn failed
GenerationFailed ==
    \/ \E i \in 1..Len(calls) : ~calls[i].ok
    \/ upstream.state = "failed"

\* C20 (as claimed): the caller of a turn that has ended receives 400 when
\* the request failed validation or named an invalid model, 503 when the
\* provider is unavailable, and 500 only after a generation failure.
C20_ErrorKeepsItsClass ==
    (pc = "done" /\ outcome.status # 0) =>
        /\ (RequestInvalid /\ ~ProviderUnavailable) => outcome.status = 400
        /\ (ProviderUnavailable /\ RequestValid(req)) => outcome.status = 503
        /\ outcome.status = 500 => GenerationFailed

(***************************************************************************)
(* Claims about request validation, checked under SpecTurn                 *)
(***************************************************************************)
\* the body of the turn has been through validation
ValidationRan ==
    pc \notin {"idle", "middleware", "validate", "main_validate"}

\* the length of the trimmed content lies in [MIN_LEN, MAX_LEN]
TrimmedInRange(content) ==
    /\ Len(Strip(content)) >= MIN_MESSAGE_LENGTH
    /\ Len(Strip(content)) <= MAX_MESSAGE_LENGTH

\* what validation checks besides the content of the messages passes
CountAndFieldsPass ==
    /\ Len(req.messages) <= MAX_MESSAGES_IN_CONTEXT
    /\ req.entry = "app" => req.provider \in Providers
    /\ req.entry = "main" => req.model # NoModel

\* C21 (as claimed): validation accepts a message exactly when the length
\* of its trimmed content lies in [MIN_LEN, MAX_LEN], and the accepted
\* message holds the trimmed content.
C21_ContentValidation ==
    (ValidationRan /\ CountAndFieldsPass) =>
        /\ ~ValidationFailed <=>
                \A i \in 1..Len(req.messages) :
                    TrimmedInRange(req.messages[i].content)
        /\ ~ValidationFailed =>
                \A i \in 1..Len(req.messages) :
                    req.messages[i].content = Strip(req.messages[i].content)

\* what validation checks besides the number of messages passes
ContentsAndFieldsPass ==
    /\ req.entry = "app" =>
            /\ req.provider \in Providers
            /\ \A i \in 1..Len(req.messages) :
                    ContentValid(req.messages[i].content)
    /\ req.entry = "main" =>
            /\ req.model # NoModel
            /\ \A i \in 1..Len(req.messages) :
                    MainContentValid(req.messages[i].content)

\* C22: a turn with more than MAX_MESSAGES messages fails validation, and a
\* turn that has at most MAX_MESSAGES messages passes the count check (it
\* is accepted when nothing else is wrong with it).
C22_MessageCountCheck ==
    ValidationRan =>
        /\ Len(req.messages) > MAX_MESSAGES_IN_CONTEXT => ValidationFailed
        /\ (Len(req.messages) <= MAX_MESSAGES_IN_CONTEXT
                /\ ContentsAndFieldsPass) => ~ValidationFailed

\* C22 witness: a turn with exactly MAX_MESSAGES messages was accepted.
C22_Witness ==
    /\ ValidationRan
    /\ Len(req.messages) = MAX_MESSAGES_IN_CONTEXT
    /\ ~ValidationFailed

(***************************************************************************)
(* Claims about the conversion of the conversation, checked under SpecTurn *)
(***************************************************************************)
\* a conversation has been handed to an upstream model
InputSent == calls # <<>> \/ upstream.state # "none"

\* the converted conversation that was handed to the upstream model
AdaptedInput ==
    IF calls # <<>> THEN calls[Len(calls)].input ELSE upstream.input

\* the provider that is given no system role (main.py line 304)
NoSystemRole == {"gemini"}

\* the first user message after message i of the turn, 0 if there is none
NextUserAfter(i) ==
    LET later == {j \in (i + 1)..Len(req.messages) :
                    req.messages[j].role = "user"}
    IN  IF later = {} THEN 0
        ELSE CHOOSE j \in later : \A k \in later : j <= k

\* C23 (as claimed): for a provider without a distinct system role no
\* message is sent under the system role, and the content of each system
\* message is sent merged, by concatenation with the separator, with the
\* first user message that follows it in the conversation.
C23_SystemMergedIntoNextUser ==
    (InputSent /\ req.provider \in NoSystemRole) =>
        /\ \A k \in 1..Len(AdaptedInput) : AdaptedInput[k].role # "system"
        /\ \A i \in 1..Len(req.messages) :
                (req.messages[i].role = "system" /\ NextUserAfter(i) # 0) =>
                    \E k \in 1..Len(AdaptedInput) :
                        AdaptedInput[k].content =
                            req.messages[i].content \o Separator
                            \o req.messages[NextUserAfter(i)].content

\* the converted messages that carry the content of input message i
CarriedBy(i) ==
    {k \in 1..Len(AdaptedInput) :
        \E n \in 1..Len(AdaptedInput[k].from) : AdaptedInput[k].from[n] = i}

\* C24 (as claimed): the converted messages keep the order of the input
\* messages, none is dropped, and the content of no input message is
\* emitted more than once.
C24_ConversationPreserved ==
    InputSent =>
        /\ \A i \in 1..Len(req.messages) : Cardinality(CarriedBy(i)) = 1
        /\ \A i, j \in 1..Len(req.messages) :
                i < j => \A k \in CarriedBy(i), l \in CarriedBy(j) : k <= l

(***************************************************************************)
(* Claims about logging and sanitization, checked under SpecTurn           *)
(***************************************************************************)
\* a turn of the chat service (ChatService.chat or chat_stream) has ended
ServiceTurnEnded ==
    pc = "done" /\ req.entry = "app" /\ resolves # <<>>

\* C25 (as claimed): every turn of the chat service, whichever way it ends,
\* has been recorded by log_chat_request with its provider and its number
\* of messages.
C25_EveryTurnLogged ==
    ServiceTurnEnded =>
        /\ logs # <<>>
        /\ logs[Len(logs)].provider = req.provider
        /\ logs[Len(logs)].message_count = Len(req.messages)

\* every character of the text is printable
AllPrintable(text) ==
    \A n \in 1..Len(text) : IsPrintable(text[n])

\* C26 (as claimed): no non-printable character reaches the caller, neither
\* in the content of a non-streaming answer nor in a delivered fragment.
C26_OnlyPrintableDelivered ==
    /\ \A i \in 1..Len(frames) :
            frames[i].type \in {"content", "raw"} =>
                AllPrintable(frames[i].content)
    /\ (outcome.status = 200 /\ "content" \in DOMAIN outcome) =>
            AllPrintable(outcome.content)

(***************************************************************************)
(* Claims about turn identifiers, checked under SpecIds                    *)
(***************************************************************************)
\* C27 (as claimed): two distinct streams never carry the same identifier.
C27_TurnIdsDistinct ==
    \A i, j \in 1..Len(started) : i # j => started[i] # started[j]

(***************************************************************************)
(* Claims about the window, checked under SpecWindow and SpecLimiter       *)
(***************************************************************************)
\* C28: get_reset_time returns 0 for a key that retains no timestamp, and
\* otherwise the whole seconds (truncated toward zero) of the time from now
\* until the oldest retained timestamp plus the window.
C28_ResetSeconds ==
    lastCall.op = "reset" =>
        LET reqs == requests[lastCall.key]
            left == Oldest(reqs) + RATE_LIMIT_WINDOW_MS - lastCall.at
            secs == lastCall.reset
        IN  IF reqs = <<>> THEN secs = 0
            ELSE /\ \A i \in 1..Len(reqs) : Oldest(reqs) <= reqs[i]
                 /\ left >= 0 =>
                        /\ secs * TicksPerSecond <= left
                        /\ left < (secs + 1) * TicksPerSecond
                 /\ left < 0 =>
                        /\ secs * TicksPerSecond >= left
                        /\ left > (secs - 1) * TicksPerSecond

\* C28 witness: get_reset_time was called on a key that retains two
\* timestamps of different instants, the older of which has not yet left
\* the window, and returned the whole seconds left to it.
C28_Witness ==
    /\ lastCall.op = "reset"
    /\ Len(requests[lastCall.key]) = 2
    /\ requests[lastCall.key][1] # requests[lastCall.key][2]
    /\ Oldest(requests[lastCall.key]) + RATE_LIMIT_WINDOW_MS - lastCall.at > 0
    /\ lastCall.reset = WholeSeconds(Oldest(requests[lastCall.key])
                            + RATE_LIMIT_WINDOW_MS - lastCall.at)

\* C29 (as claimed): after an admission check at instant now the key retains
\* exactly its earlier timestamps t with now - t <= window (and the instant
\* of the call if it admitted): a timestamp exactly one window old is kept.
C29_BoundaryTimestampRetained ==
    [][AdmitStep =>
        KeptByCall = SelectSeq(requests[lastCall'.key],
                        LAMBDA t : lastCall'.at - t <= lastCall'.window)]_vars

\* the admit calls on key k that returned True at an instant t with
\* n - window < t <= n
AdmittedInWindow(k, n) ==
    {i \in 1..Len(admitted[k]) :
        n - RATE_LIMIT_WINDOW_MS < admitted[k][i] /\ admitted[k][i] <= n}

\* C30: under serialized access with the budget and the window of a key
\* fixed, for every instant n at most BudgetOf(key) admit calls on the key
\* returned True at instants t with n - window < t <= n.
C30_SlidingWindowGuarantee ==
    \A k \in Keys, n \in 0..MaxTime :
        Cardinality(AdmittedInWindow(k, n)) <= BudgetOf(k)

\* C30 witness: a key has admitted more calls than its budget over time, a
\* window of it is full, and its last call was rejected.
C30_Witness ==
    /\ lastCall.op = "admit"
    /\ ~lastCall.result
    /\ Len(admitted[lastCall.key]) > BudgetOf(lastCall.key)
    /\ Cardinality(AdmittedInWindow(lastCall.key, now))
            = BudgetOf(lastCall.key)

(***************************************************************************)
(* Claims about interleaved admit calls, checked under SpecRace            *)
(***************************************************************************)
\* how many times instant t is in the list
Occurrences(reqs, t) ==
    Cardinality({i \in 1..Len(reqs) : reqs[i] = t})

\* C31 (as claimed): when admit calls on one key interleave, no step removes
\* from the list of the key a timestamp that still lies within the window:
\* every timestamp an admitted call appended stays until the window has
\* passed it.
C31_NoAdmittedRecordLost ==
    [][\A t \in 0..MaxTime :
        t > now' - RATE_LIMIT_WINDOW_MS =>
            Occurrences(requests'[RaceKey], t)
                >= Occurrences(requests[RaceKey], t)]_vars

(***************************************************************************)
(* Claims about the reset query, checked under SpecWindow                  *)
(***************************************************************************)
\* C32 (as claimed): get_reset_time never returns a negative number, also
\* when the window of the oldest timestamp of the key has elapsed and the key
\* was not purged since.
C32_ResetNeverNegative ==
    lastCall.op = "reset" => lastCall.reset >= 0

(***************************************************************************)
(* Claims about the end of a turn that is not streamed, under SpecChat     *)
(***************************************************************************)
\* the turn is a turn of app/main.py that is not streamed
ChatTurn == req.entry = "app" /\ ~req.stream

\* the last upstream invocation of the turn returned a response
LastCallOk == calls # <<>> /\ calls[Len(calls)].ok

\* what the caller of a turn that has ended received: the payload of the
\* invocation that succeeded, or an error
EndedProperly ==
    \/ /\ outcome.status = 200
       /\ LastCallOk
       /\ outcome.content = Sanitize(calls[Len(calls)].text)
    \/ /\ outcome.status >= 400
       /\ ~LastCallOk

\* C33: every turn that is not streamed ends, after at most two upstream
\* invocations for each of the three attempts, with the payload of a
\* successful invocation or with an error for the caller; a turn whose
\* invocations failed never ends as a success.
C33_NonStreamingTurnTerminates ==
    /\ [](ChatTurn => Len(calls) <= 2 * RETRY_ATTEMPTS)
    /\ []((ChatTurn /\ pc = "done") => EndedProperly)
    /\ (ChatTurn /\ pc = "endpoint") ~> (pc = "done")

\* C33 witness: a turn has ended with an error after the primary and the
\* fallback invocation failed in each of its attempts.
C33_Witness ==
    /\ ChatTurn
    /\ pc = "done"
    /\ attempt = RETRY_ATTEMPTS
    /\ Len(calls) = 2 * RETRY_ATTEMPTS
    /\ outcome.status = 500

(***************************************************************************)
(* Claims about the recorded duration, checked under SpecTimer             *)
(***************************************************************************)
\* C34 (as claimed): the duration recorded with the outcome of a turn is the
\* time elapsed between the start of the turn and the moment the outcome is
\* recorded; it is not zero when time has elapsed.
C34_DurationIsElapsedTime ==
    [][logs' # logs =>
        logs'[Len(logs')].response_time_ms = now - timer.start_time]_vars

(***************************************************************************)
(* Claims about the outcome record, checked under SpecChat                 *)
(***************************************************************************)
\* C35 (as claimed): the record of a turn that succeeded names the model
\* whose invocation produced the response that was returned; a turn that
\* succeeded through the fallback model is recorded with the fallback model.
C35_LoggedModelProducedResponse ==
    (ChatTurn /\ pc = "done" /\ outcome.status = 200) =>
        /\ logs # <<>>
        /\ logs[Len(logs)].success
        /\ logs[Len(logs)].model = calls[Len(calls)].model

(***************************************************************************)
(* Claims about the text of a stream, checked under SpecTurn               *)
(***************************************************************************)
RECURSIVE Concat(_)
\* the texts of a sequence, one after the other
Concat(texts) ==
    IF texts = <<>> THEN <<>> ELSE Head(texts) \o Concat(Tail(texts))

\* the contents of the content frames the caller received, in order
DeliveredText ==
    Concat([i \in 1..Len(SelectSeq(frames, LAMBDA f : f.type = "content"))
                |-> SelectSeq(frames, LAMBDA f : f.type = "content")[i].content])

\* C36 (as claimed): when a stream of stream_response completes normally,
\* the contents of the delivered content frames, concatenated in order, are
\* exactly the text the upstream produced, for the providers that stream and
\* for the one whose whole response is split into tokens.
C36_FramesCarryUpstreamText ==
    (/\ req.entry = "main"
     /\ pc = "done"
     /\ stream = "closed"
     /\ upstream.state = "completed") =>
        DeliveredText = Concat(upstream.fragments)

====
